---- MODULE Spec2Model ----
(***************************************************************************)
(* Model of the synthetic property-data generator of                       *)
(* step2_realistic_data.py (create_realistic_property_data, the module     *)
(* level seeding and the script's export) and of the age-group analysis of *)
(* step3_simple_analysis.py.                                               *)
(*                                                                         *)
(* Units.  Python floats are modelled by exact integers:                   *)
(*   - price_variation and avg_area_multiplier of a city are in tenths     *)
(*     (0.4 is 4, 1.1 is 11);                                              *)
(*   - a float N returned by random.uniform is kept as int(base_price * N) *)
(*     of the city it is drawn for, the integer line 84 makes of it and    *)
(*     the only use of N;                                                  *)
(*   - price_lakhs is in hundredths of a lakh (round(x, 2) * 100);         *)
(*   - a datetime is a date, the number of days since 1970-01-01, and a    *)
(*     time of day, counted in the instants at which the clock is read.    *)
(***************************************************************************)
EXTENDS Integers, Sequences, FiniteSets, TLC

VARIABLES
    pc,             \* position of the interpreter: "idle" (no call active), a statement of
                    \* DrawOrder, "return", "crashed", "saved" (step 2 done), "analysed" (step 3 done)
    now,            \* the wall clock read by datetime.now(): [date, time]
    rng,            \* state of the process-wide generator: draws consumed since random.seed(42)
    stream,         \* the values of the generator's stream materialised so far, in draw order
    deviations,     \* how many values of stream depart from the stream the repository's seed gives
    args,           \* the arguments of the current (or last) call
    i,              \* loop variable of `for i in range(num_properties)`
    local,          \* local variables of the loop body assigned so far in this iteration
    properties,     \* the list `properties` of the current call
    result,         \* what the last completed call gave its caller
    first,          \* what the first completed call gave its caller
    rng0,           \* generator state when the current (or last) call started
    calls,          \* number of calls completed
    fresh,          \* TRUE when the current process has made no call yet
    file,           \* rows of data/realistic_real_estate_data.xlsx
    age_group       \* the column df['age_group'] of step 3

vars == <<pc, now, rng, stream, deviations, args, i, local, properties, result, first,
          rng0, calls, fresh, file, age_group>>

----------------------------------------------------------------------------
(* Bounds of the exploration. *)

\* largest positive num_properties a call is given
MaxCount == 2
\* number of calls explored in one behaviour
MaxCalls == 2
\* number of days the wall clock may advance
MaxTicks == 1
\* the day the wall clock shows at the start (2026-10-30)
NowBase == 20756
\* number of draws of the first record of the stream that may depart from the
\* stream of seed 42, less one for every further record of the call
MaxDeviations == 2

----------------------------------------------------------------------------
(* Configuration built into the generator. *)

\* cities_info: base price per sq ft, price variation (tenths), area multiplier (tenths)
cities_info ==
    [Mumbai    |-> [base_price_per_sqft |-> 15000, price_variation |-> 4, avg_area_multiplier |-> 8],
     Delhi     |-> [base_price_per_sqft |-> 12000, price_variation |-> 3, avg_area_multiplier |-> 10],
     Bangalore |-> [base_price_per_sqft |-> 8000,  price_variation |-> 5, avg_area_multiplier |-> 12],
     Chennai   |-> [base_price_per_sqft |-> 7000,  price_variation |-> 3, avg_area_multiplier |-> 11],
     Pune      |-> [base_price_per_sqft |-> 7500,  price_variation |-> 4, avg_area_multiplier |-> 11],
     Hyderabad |-> [base_price_per_sqft |-> 6500,  price_variation |-> 5, avg_area_multiplier |-> 13]]

\* list(cities_info.keys()), in insertion order
CityKeys == <<"Mumbai", "Delhi", "Bangalore", "Chennai", "Pune", "Hyderabad">>

\* property_types: area range of each type
property_types ==
    ("1BHK" :> [min_area |-> 400,  max_area |-> 600]) @@
    ("2BHK" :> [min_area |-> 600,  max_area |-> 900]) @@
    ("3BHK" :> [min_area |-> 900,  max_area |-> 1400]) @@
    ("4BHK" :> [min_area |-> 1400, max_area |-> 2000])

\* list(property_types.keys()), in insertion order
TypeKeys == <<"1BHK", "2BHK", "3BHK", "4BHK">>

\* the statements of the loop body that draw from the generator, in program order
DrawOrder == <<"city", "prop_type", "base_area", "price_variation", "property_age",
               "floor_number", "total_floors", "location_score", "days_ago">>

\* draws one iteration of the loop makes
DrawsPerRecord == Len(DrawOrder)

\* lines 14-16: the stream random.seed(42) fixes, as the loop body consumes it
\* when every draw takes the value of this stream: five records, nine draws each
\* (city and type as positions in CityKeys and TypeKeys).
Seed42 ==
    <<6, 1, 406,  8070, 7,  8,  12, 2, 693,
      6, 1, 551,  5992, 0,  3,  9,  4, 518,
      5, 1, 543,  5693, 20, 18, 24, 4, 460,
      5, 3, 1314, 9715, 24, 6,  19, 6, 285,
      2, 2, 772,  9135, 12, 4,  15, 6, 619>>

\* the divisor of `(price_per_sqft * area) / 100000`
Lakh == 100000

----------------------------------------------------------------------------
(* The library calls, as the sets of values they may return. *)

\* random.choice(seq): any element of a non-empty sequence (IndexError on an empty one)
choice(seq) == {seq[k] : k \in 1..Len(seq)}

\* random.randint(a, b): any integer N with a <= N <= b (ValueError when a > b)
randint(a, b) == a..b

\* random.uniform(a, b): a float N = a + (b - a) * random() with random() in
\* [0, 1).  With N kept as int(base_price * N), every integer from that of the
\* least N to that of the greatest N is the image of some float.
uniform(a, b) == a..b

\* int(x) of a non-negative quotient num/den
int(num, den) == num \div den

----------------------------------------------------------------------------
(* The arithmetic of the loop body. *)

\* Variant: the city's area multiplier is not applied.
Area_Unscaled(base_area, city) == base_area

\* line 78: area = int(base_area * city_data['avg_area_multiplier'])
Area(base_area, city) == int(base_area * cities_info[city].avg_area_multiplier, 10)

\* lines 82-83: whether random.uniform(1 - v, 1 + v) can return its upper bound.
\* In double arithmetic 0.7 + (1.3 - 0.7) * random() is at most
\* 1.2999999999999998, while 0.6 + 0.8 * random() and 0.5 + 1.0 * random()
\* round up to 1.4 and 1.5 at the largest random().
UpperBoundReturned(price_variation) == price_variation # 3

\* lines 82-84: int(base_price * N) of the least float N = 1 - v the draw returns
VariationLow(city) ==
    LET c == cities_info[city]
    IN  int(c.base_price_per_sqft * (10 - c.price_variation), 10)

\* lines 82-84: int(base_price * N) of the greatest float N the draw returns
VariationHigh(city) ==
    LET c   == cities_info[city]
        top == int(c.base_price_per_sqft * (10 + c.price_variation), 10)
    IN  IF UpperBoundReturned(c.price_variation) THEN top ELSE top - 1

\* lines 98-99 as one factor: location_bonus * age_penalty * 10^4
\*   location_bonus = 1 + (location_score - 5) * 0.02 = (90 + 2 * location_score) / 100
\*   age_penalty    = 1 - property_age * 0.01         = (100 - property_age) / 100
Adjustment(location_score, property_age) ==
    (90 + 2 * location_score) * (100 - property_age)

\* lines 87 and 101: final_price * 10^9 = price_per_sqft * area * Adjustment.
\* The product does not fit 32 bits, so it is kept as whole hundredths of a lakh
\* and a remainder over 10^7.
FinalPriceParts(price_per_sqft, area, location_score, property_age) ==
    LET pa   == price_per_sqft * area
        adj  == Adjustment(location_score, property_age)
        x    == (pa \div Lakh) * adj
        y    == (pa % Lakh) * adj
        rest == (x % 100) * Lakh + y
    IN  [whole |-> (x \div 100) + (rest \div 10000000), frac |-> rest % 10000000]

\* line 111: round(final_price, 2), in hundredths.  Off a decimal tie the nearest
\* hundredth; on an exact decimal tie the float final_price lies a rounding error
\* above or below the tie, and round() gives the neighbour on that side.
Round2(price_per_sqft, area, location_score, property_age) ==
    LET p == FinalPriceParts(price_per_sqft, area, location_score, property_age)
    IN  IF 2 * p.frac < 10000000 THEN {p.whole}
        ELSE IF 2 * p.frac > 10000000 THEN {p.whole + 1}
        ELSE {p.whole, p.whole + 1}

\* line 105: datetime - timedelta(days=days_ago) keeps the time of day
DaysBefore(datetime, days_ago) ==
    [date |-> datetime.date - days_ago, time |-> datetime.time]

\* line 118: listing_date.strftime('%Y-%m'): <<year, month>> of the date
\* (proleptic Gregorian calendar, days counted from 1970-01-01)
MonthListed(listing_date) ==
    LET z   == listing_date.date + 719468
        era == z \div 146097
        doe == z - era * 146097
        yoe == (doe - doe \div 1460 + doe \div 36524 - doe \div 146096) \div 365
        doy == doe - (365 * yoe + yoe \div 4 - yoe \div 100)
        mp  == (5 * doy + 2) \div 153
        m   == IF mp < 10 THEN mp + 3 ELSE mp - 9
        y   == yoe + era * 400 + (IF m <= 2 THEN 1 ELSE 0)
    IN  <<y, m>>

----------------------------------------------------------------------------
(* The process-wide generator. *)

\* The value the stream of seed 42 has at the generator's position, when the
\* draw can return it; the outcome `other` when the draws before have departed
\* from that stream and put the value out of range.
Seeded(S, other) ==
    IF rng < Len(Seed42) /\ Seed42[rng + 1] \in S THEN Seed42[rng + 1] ELSE other

\* The outcomes S of a draw that the exploration follows: the value of the
\* seed-42 stream, the points pts (the ends of a range, every element of a
\* list), and the value already materialised at this position.
Explored(S, pts, other) ==
    LET drawn == IF rng < Len(stream) THEN {stream[rng + 1].val} ELSE {}
    IN  {x \in pts \cup {Seeded(S, other)} \cup drawn : x \in S}

\* One call on the generator (random.choice, random.randint, random.uniform)
\* by statement `kind`, returning v out of S.  The generator is deterministic:
\* after random.seed(42) the value of the k-th draw is fixed, so a position of
\* the stream read again gives the value it gave before.  A position read for
\* the first time takes the value of the seed-42 stream or, in the first record
\* and within the bound MaxDeviations (shared with the records the call is to
\* build), another outcome of the draw.
Take(kind, v, S, other) ==
    /\ IF rng < Len(stream)
          THEN /\ stream[rng + 1] = [kind |-> kind, val |-> v]
               /\ UNCHANGED <<stream, deviations>>
          ELSE /\ \/ v = Seeded(S, other)
                  \/ /\ deviations + args.num_properties <= MaxDeviations
                     /\ rng < DrawsPerRecord
               /\ stream' = Append(stream, [kind |-> kind, val |-> v])
               /\ deviations' = deviations + (IF v = Seeded(S, other) THEN 0 ELSE 1)
    /\ rng' = rng + 1

----------------------------------------------------------------------------
(* Step 3: the age groups. *)

AgeBins   == <<0, 5, 10, 15, 25>>
AgeLabels == <<"0-5 years", "6-10 years", "11-15 years", "16+ years">>

\* pd.cut(x, bins, labels) with its defaults right=True, include_lowest=False:
\* x falls in the interval (bins[j], bins[j+1]] and gets labels[j], or in none and
\* gets NaN.
cut(x, bins, labels) ==
    LET hit == {j \in 1..Len(labels) : bins[j] < x /\ x <= bins[j + 1]}
    IN  IF hit = {} THEN "NaN" ELSE labels[CHOOSE j \in hit : TRUE]

----------------------------------------------------------------------------
(* The state after the module is imported: lines 14-16 have seeded the generator. *)

NoResult == [outcome |-> "none", rows |-> <<>>]

Init ==
    /\ pc = "idle"
    /\ now = [date |-> NowBase, time |-> 0]
    /\ rng = 0
    /\ stream = <<>>
    /\ deviations = 0
    /\ args = [num_properties |-> 0]
    /\ i = 0
    /\ local = <<>>
    /\ properties = <<>>
    /\ result = NoResult
    /\ first = NoResult
    /\ rng0 = 0
    /\ calls = 0
    /\ fresh = TRUE
    /\ file = <<>>
    /\ age_group = <<>>

\* the values of num_properties the callers pass
Counts == {-5, 0} \cup (1..MaxCount)

\* The wall clock passes midnight: before a call, between two calls, or inside a
\* call between two reads of line 105.
Tick ==
    /\ now.date < NowBase + MaxTicks
    /\ now' = [now EXCEPT !.date = @ + 1]
    /\ UNCHANGED <<pc, rng, stream, deviations, args, i, local, properties, result,
                   first, rng0, calls, fresh, file, age_group>>

\* create_realistic_property_data(n): lines 18-67, up to the first test of the
\* loop.  A later call of a behaviour repeats the arguments of the first.
Call(n) ==
    /\ pc = "idle"
    /\ calls < MaxCalls
    /\ calls > 0 => n = args.num_properties
    /\ n > 0 => rng + n * DrawsPerRecord <= MaxCount * DrawsPerRecord
    /\ args' = [num_properties |-> n]
    /\ properties' = <<>>
    /\ i' = 0
    /\ rng0' = rng
    /\ pc' = IF 0 < n THEN "city" ELSE "return"
    /\ UNCHANGED <<now, rng, stream, deviations, local, result, first, calls, fresh,
                   file, age_group>>

\* what a statement that draws a value leaves alone
UnchangedByDraw == <<now, args, i, properties, result, first, rng0, calls, fresh,
                     file, age_group>>

\* An exception leaves the function: no table is returned, and, uncaught, it
\* ends the process.
Raise(exception) ==
    /\ result' = [outcome |-> exception, rows |-> <<>>]
    /\ pc' = "crashed"
    /\ UNCHANGED <<now, rng, stream, deviations, args, i, local, properties, first,
                   rng0, calls, fresh, file, age_group>>

\* line 69
ChooseCity ==
    /\ pc = "city"
    /\ IF choice(CityKeys) = {}
       THEN Raise("IndexError")
       ELSE /\ \E k \in Explored(1..Len(CityKeys), 1..Len(CityKeys), 1) :
                  /\ CityKeys[k] \in choice(CityKeys)
                  /\ Take("city", k, 1..Len(CityKeys), 1)
                  /\ local' = [city |-> CityKeys[k]]
            /\ pc' = "prop_type"
            /\ UNCHANGED UnchangedByDraw

\* line 70
ChoosePropType ==
    /\ pc = "prop_type"
    /\ IF choice(TypeKeys) = {}
       THEN Raise("IndexError")
       ELSE /\ \E k \in Explored(1..Len(TypeKeys), 1..Len(TypeKeys), 1) :
                  /\ TypeKeys[k] \in choice(TypeKeys)
                  /\ Take("prop_type", k, 1..Len(TypeKeys), 1)
                  /\ local' = [prop_type |-> TypeKeys[k]] @@ local
            /\ pc' = "base_area"
            /\ UNCHANGED UnchangedByDraw

\* lines 73-78
DrawBaseArea ==
    /\ pc = "base_area"
    /\ LET prop_data == property_types[local.prop_type]
           min_area  == prop_data.min_area
           max_area  == prop_data.max_area
       IN  \E b \in Explored(randint(min_area, max_area), {min_area, max_area}, max_area) :
              /\ Take("base_area", b, randint(min_area, max_area), max_area)
              /\ local' = [base_area |-> b, area |-> Area(b, local.city)] @@ local
    /\ pc' = "price_variation"
    /\ UNCHANGED UnchangedByDraw

\* lines 81-84.  The float drawn is kept as the integer int(base_price * N), so
\* line 84 gives price_per_sqft the value kept for price_variation.
DrawPriceVariation ==
    /\ pc = "price_variation"
    /\ LET low  == VariationLow(local.city)
           high == VariationHigh(local.city)
       IN  \E v \in Explored(uniform(low, high), {low, high}, high) :
              /\ Take("price_variation", v, uniform(low, high), high)
              /\ local' = [price_variation |-> v, price_per_sqft |-> v] @@ local
    /\ pc' = "property_age"
    /\ UNCHANGED UnchangedByDraw

\* line 90
DrawPropertyAge ==
    /\ pc = "property_age"
    /\ \E a \in Explored(randint(0, 25), {0, 25}, 0) :
          /\ Take("property_age", a, randint(0, 25), 0)
          /\ local' = [property_age |-> a] @@ local
    /\ pc' = "floor_number"
    /\ UNCHANGED UnchangedByDraw

\* line 91
DrawFloorNumber ==
    /\ pc = "floor_number"
    /\ \E f \in Explored(randint(1, 20), {1, 20}, 1) :
          /\ Take("floor_number", f, randint(1, 20), 1)
          /\ local' = [floor_number |-> f] @@ local
    /\ pc' = "total_floors"
    /\ UNCHANGED UnchangedByDraw

\* Variant: total_floors is drawn from 1..25 whatever the floor number.
DrawTotalFloors_FromOne ==
    /\ pc = "total_floors"
    /\ \E t \in Explored(randint(1, 25), {1, 25}, 1) :
          /\ Take("total_floors", t, randint(1, 25), 1)
          /\ local' = [total_floors |-> t] @@ local
    /\ pc' = "location_score"
    /\ UNCHANGED UnchangedByDraw

\* line 92
DrawTotalFloors ==
    /\ pc = "total_floors"
    /\ \E t \in Explored(randint(local.floor_number, 25),
                          {local.floor_number, 25}, local.floor_number) :
          /\ Take("total_floors", t, randint(local.floor_number, 25), local.floor_number)
          /\ local' = [total_floors |-> t] @@ local
    /\ pc' = "location_score"
    /\ UNCHANGED UnchangedByDraw

\* line 95
DrawLocationScore ==
    /\ pc = "location_score"
    /\ \E s \in Explored(randint(1, 10), {1, 10}, 1) :
          /\ Take("location_score", s, randint(1, 10), 1)
          /\ local' = [location_score |-> s] @@ local
    /\ pc' = "days_ago"
    /\ UNCHANGED UnchangedByDraw

\* Variant: the row stores the area before the city's multiplier is applied.
Row_BaseArea(l, price, listing_date) ==
    [city               |-> l.city,
     property_type      |-> l.prop_type,
     area_sqft          |-> l.base_area,
     price_lakhs        |-> price,
     price_per_sqft     |-> l.price_per_sqft,
     property_age_years |-> l.property_age,
     floor_number       |-> l.floor_number,
     total_floors       |-> l.total_floors,
     location_score     |-> l.location_score,
     listing_date       |-> listing_date,
     month_listed       |-> MonthListed(listing_date)]

\* lines 107-119: the dict appended to `properties`
Row(l, price, listing_date) ==
    [city               |-> l.city,
     property_type      |-> l.prop_type,
     area_sqft          |-> l.area,
     price_lakhs        |-> price,
     price_per_sqft     |-> l.price_per_sqft,
     property_age_years |-> l.property_age,
     floor_number       |-> l.floor_number,
     total_floors       |-> l.total_floors,
     location_score     |-> l.location_score,
     listing_date       |-> listing_date,
     month_listed       |-> MonthListed(listing_date)]

\* Variant: the row is put at the front of the list.
append_front(list, row) == <<row>> \o list

\* line 107: properties.append(row)
append(list, row) == Append(list, row)

\* Variant: the city is chosen once, before the loop; an iteration starts at the
\* choice of the property type.
DrawDaysAgoAndAppend_CityOnce ==
    /\ pc = "days_ago"
    /\ \E d \in Explored(randint(1, 730), {1, 730}, 1) :
       \E price \in Round2(local.price_per_sqft, local.area,
                           local.location_score, local.property_age) :
          /\ Take("days_ago", d, randint(1, 730), 1)
          /\ local' = [days_ago |-> d] @@ local
          /\ properties' = append(properties, Row(local, price, DaysBefore(now, d)))
    /\ now' = [now EXCEPT !.time = @ + 1]
    /\ i' = i + 1
    /\ pc' = IF i + 1 < args.num_properties THEN "prop_type" ELSE "return"
    /\ UNCHANGED <<args, result, first, rng0, calls, fresh, file, age_group>>

\* lines 87-119 and the next test of the loop (line 67).  Line 105 reads the
\* clock anew in every iteration, and an iteration takes time: the next read
\* gives a later instant.
DrawDaysAgoAndAppend ==
    /\ pc = "days_ago"
    /\ \E d \in Explored(randint(1, 730), {1, 730}, 1) :
       \E price \in Round2(local.price_per_sqft, local.area,
                           local.location_score, local.property_age) :
          /\ Take("days_ago", d, randint(1, 730), 1)
          /\ local' = [days_ago |-> d] @@ local
          /\ properties' = append(properties, Row(local, price, DaysBefore(now, d)))
    /\ now' = [now EXCEPT !.time = @ + 1]
    /\ i' = i + 1
    /\ pc' = IF i + 1 < args.num_properties THEN "city" ELSE "return"
    /\ UNCHANGED <<args, result, first, rng0, calls, fresh, file, age_group>>

\* line 121: return pd.DataFrame(properties)
Return ==
    /\ pc = "return"
    /\ result' = [outcome |-> "returned", rows |-> properties]
    /\ first' = IF calls = 0 THEN result' ELSE first
    /\ calls' = calls + 1
    /\ fresh' = FALSE
    /\ pc' = "idle"
    /\ UNCHANGED <<now, rng, stream, deviations, args, i, local, properties, rng0,
                   file, age_group>>

\* The process ends and the module is imported by a new one: lines 14-16 seed
\* the generator again.  Starting a process takes time: the clock the new
\* process reads is past every instant the old one read.
Restart ==
    /\ pc = "idle"
    /\ ~fresh
    /\ rng' = 0
    /\ fresh' = TRUE
    /\ now' = [now EXCEPT !.time = @ + 1]
    /\ UNCHANGED <<pc, stream, deviations, args, i, local, properties, result, first,
                   rng0, calls, file, age_group>>

\* lines 125-207 of the script: the table of its one call is exported.  With an
\* empty table line 128 raises KeyError and nothing is written.
Save ==
    /\ pc = "idle"
    /\ calls = 1
    /\ ~fresh
    /\ result.rows # <<>>
    /\ file' = result.rows
    /\ pc' = "saved"
    /\ UNCHANGED <<now, rng, stream, deviations, args, i, local, properties, result,
                   first, rng0, calls, fresh, age_group>>

\* step 3, lines 16 and 66-68: the file is loaded and the age groups are cut
Step3AgeGroups ==
    /\ pc = "saved"
    /\ age_group' = [k \in 1..Len(file) |->
                        cut(file[k].property_age_years, AgeBins, AgeLabels)]
    /\ pc' = "analysed"
    /\ UNCHANGED <<now, rng, stream, deviations, args, i, local, properties, result,
                   first, rng0, calls, fresh, file>>

\* create_realistic_property_data(n, cityProfiles=...): the function of line 18
\* takes num_properties only, so the call raises TypeError while its arguments
\* are bound: the body never runs, whatever n is and whatever ran before.
CallWithProfiles(n) ==
    /\ pc = "idle"
    /\ Raise("TypeError")

Next ==
    \/ Tick
    \/ \E n \in Counts : Call(n)
    \/ \E n \in Counts : CallWithProfiles(n)
    \/ ChooseCity
    \/ ChoosePropType
    \/ DrawBaseArea
    \/ DrawPriceVariation
    \/ DrawPropertyAge
    \/ DrawFloorNumber
    \/ DrawTotalFloors
    \/ DrawLocationScore
    \/ DrawDaysAgoAndAppend
    \/ Return
    \/ Restart
    \/ Save
    \/ Step3AgeGroups

Spec == Init /\ [][Next]_vars

----------------------------------------------------------------------------
(* Properties. *)

\* the rows built so far by the current call and those of the last table returned
Rows == {properties[k] : k \in 1..Len(properties)}
            \cup {result.rows[k] : k \in 1..Len(result.rows)}

\* a call has completed and its caller holds the outcome
Completed == pc \in {"idle", "saved", "analysed"} /\ calls >= 1

\* C1. Determinism: a later call with the arguments of the first gives its
\* caller the table the first call gave, field for field, in the same process
\* or in a new one.
C1_Determinism ==
    (pc = "idle" /\ calls >= 2) => result = first

\* C2. Invalid count: a call with num_properties <= 0 fails with an
\* InvalidArgumentError and returns no table.
C2_InvalidCountRaises ==
    (Completed /\ args.num_properties <= 0)
        => result.outcome = "InvalidArgumentError"

\* C3. Configuration error: a call given profile mappings that are
\* empty fails with a ConfigurationError before any record is produced.
C3_ConfigurationErrorRaised ==
    pc = "crashed" => result.outcome = "ConfigurationError" /\ properties = <<>>

\* the row was built from the draws that start at position base of the stream
FromDraws(row, base) ==
    /\ row.city = CityKeys[stream[base + 1].val]
    /\ row.property_type = TypeKeys[stream[base + 2].val]
    /\ row.area_sqft
         = (stream[base + 3].val * cities_info[row.city].avg_area_multiplier) \div 10
    /\ row.price_per_sqft = stream[base + 4].val
    /\ row.property_age_years = stream[base + 5].val
    /\ row.floor_number = stream[base + 6].val
    /\ row.total_floors = stream[base + 7].val
    /\ row.location_score = stream[base + 8].val
    /\ row.listing_date.date + stream[base + 9].val \in NowBase..now.date
    /\ row.listing_date.time < now.time

\* C4. Cardinality and order: a call with num_properties = N > 0 returns exactly
\* N rows, and row k is the one built by iteration k, from that iteration's draws.
C4_CardinalityAndOrder ==
    /\ pc \notin {"idle", "saved", "analysed", "crashed"} => Len(properties) = i
    /\ (Completed /\ args.num_properties > 0) =>
          /\ result.outcome = "returned"
          /\ Len(result.rows) = args.num_properties
          /\ \A k \in 1..Len(result.rows) :
                FromDraws(result.rows[k], rng0 + (k - 1) * DrawsPerRecord)

C4_Witness ==
    /\ Completed
    /\ Len(result.rows) = 2
    /\ result.rows[1].floor_number # result.rows[2].floor_number

\* C5. Bounds invariant: in every row 1 <= location_score <= 10,
\* 0 <= property_age_years <= 25, 1 <= floor_number <= 20 and
\* floor_number <= total_floors <= 25.
C5_Bounds ==
    \A row \in Rows :
        /\ 1 <= row.location_score /\ row.location_score <= 10
        /\ 0 <= row.property_age_years /\ row.property_age_years <= 25
        /\ 1 <= row.floor_number /\ row.floor_number <= 20
        /\ row.floor_number <= row.total_floors /\ row.total_floors <= 25

C5_Witness ==
    \E row \in Rows :
        /\ row.floor_number = 20 /\ row.total_floors = 20

\* C6. Derived-field consistency: the price_lakhs a row stores is
\* round(price_per_sqft * area_sqft / 100000 * location_bonus * age_penalty, 2)
\* computed from the price_per_sqft, area_sqft, location_score and
\* property_age_years the same row stores.
C6_PriceFromStoredFields ==
    \A row \in Rows :
        row.price_lakhs \in Round2(row.price_per_sqft, row.area_sqft,
                                   row.location_score, row.property_age_years)

C6_Witness ==
    \E row \in Rows :
        /\ row.price_per_sqft = 8070 /\ row.area_sqft = 527
        /\ row.location_score = 2 /\ row.property_age_years = 25
        /\ row.price_lakhs = 2998

\* C7. Purity: when a call has returned, the state outside the
\* returned table, the generator's included, is what it was when the call began.
C7_GeneratorUntouched ==
    (Completed /\ ~fresh) => rng = rng0

\* C8. Profile ranges: in every row area_sqft lies between
\* floor(min_area * multiplier) and floor(max_area * multiplier), and
\* price_per_sqft between floor(base * (1 - variation)) and
\* floor(base * (1 + variation)); a Mumbai 2BHK has area in [480, 720] and price
\* per sq ft in [9000, 21000].
C8_ProfileRanges ==
    \A row \in Rows :
        LET c == cities_info[row.city]
            t == property_types[row.property_type]
        IN  /\ (t.min_area * c.avg_area_multiplier) \div 10 <= row.area_sqft
            /\ row.area_sqft <= (t.max_area * c.avg_area_multiplier) \div 10
            /\ (c.base_price_per_sqft * (10 - c.price_variation)) \div 10
                   <= row.price_per_sqft
            /\ row.price_per_sqft
                   <= (c.base_price_per_sqft * (10 + c.price_variation)) \div 10
            /\ (row.city = "Mumbai" /\ row.property_type = "2BHK") =>
                   /\ row.area_sqft \in 480..720
                   /\ row.price_per_sqft \in 9000..21000

C8_Witness ==
    \E row \in Rows :
        /\ row.city = "Mumbai" /\ row.property_type = "2BHK"
        /\ row.area_sqft = 720 /\ row.price_per_sqft = 21000

\* position of a statement in the loop body, counted from 0
Offset(statement) == CHOOSE k \in 0..(DrawsPerRecord - 1) : DrawOrder[k + 1] = statement

\* C9. Fixed draw order: the draws leave the one stream in the order city,
\* property type, base area, price variation, age, floor number, total floors,
\* location score, days ago; the total-floors draw follows the floor-number draw
\* and is not below it; the draws of iteration i precede those of iteration i+1.
C9_DrawOrder ==
    /\ \A k \in 1..Len(stream) :
          /\ stream[k].kind = DrawOrder[((k - 1) % DrawsPerRecord) + 1]
          /\ stream[k].kind = "total_floors" =>
                /\ stream[k - 1].kind = "floor_number"
                /\ stream[k - 1].val <= stream[k].val
    /\ pc \in {DrawOrder[k] : k \in 1..DrawsPerRecord} =>
          rng = rng0 + i * DrawsPerRecord + Offset(pc)
    /\ pc = "return" => rng = rng0 + i * DrawsPerRecord

C9_Witness ==
    /\ pc = "idle"
    /\ Len(stream) = 2 * DrawsPerRecord
    /\ stream[DrawsPerRecord + 6].val = 3
    /\ stream[DrawsPerRecord + 7].val = 9

\* the age group the labels promise
ExpectedAgeGroup(age) ==
    IF age <= 5 THEN "0-5 years"
    ELSE IF age <= 10 THEN "6-10 years"
    ELSE IF age <= 15 THEN "11-15 years"
    ELSE "16+ years"

\* C10. Age-bucket coverage: step 3 gives every loaded row one of the four age
\* groups, ages 0..5 the first, 6..10 the second, 11..15 the third and 16..25
\* the fourth, so no row is left out of the per-group mean.
C10_AgeGroupCoverage ==
    pc = "analysed" =>
        \A k \in 1..Len(file) :
            age_group[k] = ExpectedAgeGroup(file[k].property_age_years)

====
